---- MODULE Spec2Model ----
(***************************************************************************)
(* XLog: ProfileManager (src/source/profile_manager.py) over               *)
(* YandexDiskClient (src/source/yadisk_client.py).                         *)
(*                                                                         *)
(* A Python str is a sequence of code points, a bytes object a sequence of *)
(* integers 0..255.  The remote disk is the pair (dirs, files); each       *)
(* public method is one action that runs the whole method against it.      *)
(***************************************************************************)
EXTENDS Integers, Sequences, FiniteSets, TLC

VARIABLES
    dirs,     \* the directories that exist on the disk (full paths)
    files,    \* the files on the disk: full path -> blob
    now,      \* datetime.now()
    detect,   \* CHARSET_DETECT_AVAILABLE
    last,     \* the last public call: method, arguments, outcome, result
    added,    \* history: the add_to_library calls made so far
    sample    \* the encoding and text a plain-text sample was made from

vars == <<dirs, files, now, detect, last, added, sample>>

----------------------------------------------------------------------------
(* Bounds of the model *)

\* days of the modelled month the clock runs through (1 .. MaxDay)
MaxDay == 3
\* largest `limit` passed to get_recent_messages / build_context
MaxLimit == 3
\* add_to_library calls recorded in the history `added`
MaxAdds == 2
\* length of the Cyrillic strings fed to the plain-text reader
MaxStrLen == 2

----------------------------------------------------------------------------
(* Python str / list primitives *)

NL == <<10>>
SLASH == <<47>>

\* None
None == <<-1>>

\* bool(x) of an Optional[str]
Truthy(x) == x # None /\ x # <<>>

\* s.startswith(p)
StartsWith(s, p) == Len(s) >= Len(p) /\ SubSeq(s, 1, Len(p)) = p

\* s.endswith(p)
EndsWith(s, p) == Len(s) >= Len(p) /\ SubSeq(s, Len(s) - Len(p) + 1, Len(s)) = p

RECURSIVE SplitAcc(_, _, _, _)
SplitAcc(s, c, i, cur) ==
    IF i > Len(s) THEN <<cur>>
    ELSE IF s[i] = c THEN <<cur>> \o SplitAcc(s, c, i + 1, <<>>)
    ELSE SplitAcc(s, c, i + 1, Append(cur, s[i]))

\* s.split(sep) for a one-character separator: never an empty list
Split(s, sep) == SplitAcc(s, sep[1], 1, <<>>)

RECURSIVE Join(_, _)
\* sep.join(parts)
Join(parts, sep) ==
    IF parts = <<>> THEN <<>>
    ELSE IF Len(parts) = 1 THEN parts[1]
    ELSE parts[1] \o sep \o Join(Tail(parts), sep)

\* str.isspace() of one code point
WhiteSpace ==
    {9, 10, 11, 12, 13, 28, 29, 30, 31, 32, 133, 160, 5760, 8232, 8233,
     8239, 8287, 12288} \cup (8192 .. 8202)

RECURSIVE LStrip(_)
LStrip(s) == IF s # <<>> /\ s[1] \in WhiteSpace THEN LStrip(Tail(s)) ELSE s

RECURSIVE RStrip(_)
RStrip(s) ==
    IF s # <<>> /\ s[Len(s)] \in WhiteSpace
    THEN RStrip(SubSeq(s, 1, Len(s) - 1)) ELSE s

\* s.strip()
Strip(s) == RStrip(LStrip(s))

RECURSIVE Replace(_, _, _)
\* s.replace(old, new), old non-empty
Replace(s, old, new) ==
    IF s = <<>> THEN <<>>
    ELSE IF StartsWith(s, old)
         THEN new \o Replace(SubSeq(s, Len(old) + 1, Len(s)), old, new)
    ELSE <<s[1]>> \o Replace(Tail(s), old, new)

\* s.lower() on the ASCII letters (the suffixes tested are ASCII)
Lower(s) == [i \in 1 .. Len(s) |-> IF s[i] \in 65 .. 90 THEN s[i] + 32 ELSE s[i]]

\* one decimal digit
Digit(n) == 48 + n

\* f"{n:02d}" / %m %d %H %M %S
Pad2(n) == <<Digit((n \div 10) % 10), Digit(n % 10)>>

\* %Y
Pad4(n) == Pad2(n \div 100) \o Pad2(n % 100)

----------------------------------------------------------------------------
(* The remote disk (yadisk.Client), as the calls the client makes see it *)

\* the kinds of backend call; `down` is the set of kinds that raise
\* during one public call
Calls == {"exists", "mkdir", "download", "upload", "listdir"}

root_folder == <<88, 76, 111, 103>>   \* "XLog"

\* f"/{self.root_folder}/{remote_path}"
FullPath(remote_path) == SLASH \o root_folder \o SLASH \o remote_path

\* f"/{self.root_folder}"
RootPath == SLASH \o root_folder

\* the path without its last segment
Parent(path) ==
    LET parts == Split(path, SLASH)
    IN  Join(SubSeq(parts, 1, Len(parts) - 1), SLASH)

\* self.client.exists(path), when it answers
Exists(b, path) == path \in b.dirs \/ path \in DOMAIN b.files

\* self.client.mkdir(path) raises: the call fails, the path exists already,
\* or its parent is missing
MkdirRaises(b, path, down) ==
    "mkdir" \in down \/ Exists(b, path) \/ Parent(path) \notin b.dirs

\* self.client.upload(temp, path, overwrite=True) raises: the call fails,
\* the parent folder is missing, or the path is a folder
UploadRaises(b, path, down) ==
    "upload" \in down \/ Parent(path) \notin b.dirs \/ path \in b.dirs

\* the disk after an upload of `blob` to `path`
Upload(b, path, blob) ==
    [b EXCEPT !.files =
        [p \in DOMAIN b.files \cup {path} |->
            IF p = path THEN blob ELSE b.files[p]]]

----------------------------------------------------------------------------
(* YandexDiskClient.ensure_folder_exists *)

RECURSIVE EnsureLoop(_, _, _, _, _, _)
\* the for loop over parts; `log` is the mkdir calls issued so far
EnsureLoop(b, parts, i, current_path, log, down) ==
    IF i > Len(parts) THEN [b |-> b, ok |-> TRUE, mkdirs |-> log]
    ELSE IF parts[i] = <<>>
         THEN EnsureLoop(b, parts, i + 1, current_path, log, down)
    ELSE LET cp == current_path \o SLASH \o parts[i] IN
         IF "exists" \in down THEN [b |-> b, ok |-> FALSE, mkdirs |-> log]
         ELSE IF Exists(b, cp)
              THEN EnsureLoop(b, parts, i + 1, cp, log, down)
         ELSE IF MkdirRaises(b, cp, down)
              THEN [b |-> b, ok |-> FALSE, mkdirs |-> Append(log, cp)]
         ELSE EnsureLoop([b EXCEPT !.dirs = @ \cup {cp}], parts, i + 1, cp,
                         Append(log, cp), down)

\* the bug of walking from "/" instead of from the root folder
ensure_folder_exists_FromSlash(b, remote_path, down) ==
    EnsureLoop(b, Split(remote_path, SLASH), 1, <<>>, <<>>, down)

ensure_folder_exists(b, remote_path, down) ==
    EnsureLoop(b, Split(remote_path, SLASH), 1, RootPath, <<>>, down)

----------------------------------------------------------------------------
(* Text codecs: bytes.decode(encoding) and str.encode('utf-8') *)

\* the byte order mark U+FEFF
BOM == 65279

\* bytes 0x80 .. 0xFF of Python's cp1251 codec (-1: undefined)
CP1251_HIGH ==
    <<1026, 1027, 8218, 1107, 8222, 8230, 8224, 8225, 8364, 8240, 1033,
      8249, 1034, 1036, 1035, 1039, 1106, 8216, 8217, 8220, 8221, 8226,
      8211, 8212, -1, 8482, 1113, 8250, 1114, 1116, 1115, 1119, 160, 1038,
      1118, 1032, 164, 1168, 166, 167, 1025, 169, 1028, 171, 172, 173, 174,
      1031, 176, 177, 1030, 1110, 1169, 181, 182, 183, 1105, 8470, 1108,
      187, 1112, 1029, 1109, 1111, 1040, 1041, 1042, 1043, 1044, 1045, 1046,
      1047, 1048, 1049, 1050, 1051, 1052, 1053, 1054, 1055, 1056, 1057,
      1058, 1059, 1060, 1061, 1062, 1063, 1064, 1065, 1066, 1067, 1068,
      1069, 1070, 1071, 1072, 1073, 1074, 1075, 1076, 1077, 1078, 1079,
      1080, 1081, 1082, 1083, 1084, 1085, 1086, 1087, 1088, 1089, 1090,
      1091, 1092, 1093, 1094, 1095, 1096, 1097, 1098, 1099, 1100, 1101,
      1102, 1103>>

\* bytes 0x80 .. 0xFF of Python's koi8_r codec (-1: undefined)
KOI8R_HIGH ==
    <<9472, 9474, 9484, 9488, 9492, 9496, 9500, 9508, 9516, 9524, 9532,
      9600, 9604, 9608, 9612, 9616, 9617, 9618, 9619, 8992, 9632, 8729,
      8730, 8776, 8804, 8805, 160, 8993, 176, 178, 183, 247, 9552, 9553,
      9554, 1105, 9555, 9556, 9557, 9558, 9559, 9560, 9561, 9562, 9563,
      9564, 9565, 9566, 9567, 9568, 9569, 1025, 9570, 9571, 9572, 9573,
      9574, 9575, 9576, 9577, 9578, 9579, 9580, 169, 1102, 1072, 1073, 1094,
      1076, 1077, 1092, 1075, 1093, 1080, 1081, 1082, 1083, 1084, 1085,
      1086, 1087, 1103, 1088, 1089, 1090, 1091, 1078, 1074, 1100, 1099,
      1079, 1096, 1101, 1097, 1095, 1098, 1070, 1040, 1041, 1062, 1044,
      1045, 1060, 1043, 1061, 1048, 1049, 1050, 1051, 1052, 1053, 1054,
      1055, 1071, 1056, 1057, 1058, 1059, 1046, 1042, 1068, 1067, 1047,
      1064, 1069, 1065, 1063, 1066>>

\* bytes 0x80 .. 0xFF of Python's cp866 codec (-1: undefined)
CP866_HIGH ==
    <<1040, 1041, 1042, 1043, 1044, 1045, 1046, 1047, 1048, 1049, 1050,
      1051, 1052, 1053, 1054, 1055, 1056, 1057, 1058, 1059, 1060, 1061,
      1062, 1063, 1064, 1065, 1066, 1067, 1068, 1069, 1070, 1071, 1072,
      1073, 1074, 1075, 1076, 1077, 1078, 1079, 1080, 1081, 1082, 1083,
      1084, 1085, 1086, 1087, 9617, 9618, 9619, 9474, 9508, 9569, 9570,
      9558, 9557, 9571, 9553, 9559, 9565, 9564, 9563, 9488, 9492, 9524,
      9516, 9500, 9472, 9532, 9566, 9567, 9562, 9556, 9577, 9574, 9568,
      9552, 9580, 9575, 9576, 9572, 9573, 9561, 9560, 9554, 9555, 9579,
      9578, 9496, 9484, 9608, 9604, 9612, 9616, 9600, 1088, 1089, 1090,
      1091, 1092, 1093, 1094, 1095, 1096, 1097, 1098, 1099, 1100, 1101,
      1102, 1103, 1025, 1105, 1028, 1108, 1031, 1111, 1038, 1118, 176, 8729,
      183, 8730, 8470, 164, 9632, 160>>

\* bytes 0x80 .. 0xFF of Python's iso8859_5 codec (-1: undefined)
ISO8859_5_HIGH ==
    <<128, 129, 130, 131, 132, 133, 134, 135, 136, 137, 138, 139, 140, 141,
      142, 143, 144, 145, 146, 147, 148, 149, 150, 151, 152, 153, 154, 155,
      156, 157, 158, 159, 160, 1025, 1026, 1027, 1028, 1029, 1030, 1031,
      1032, 1033, 1034, 1035, 1036, 173, 1038, 1039, 1040, 1041, 1042, 1043,
      1044, 1045, 1046, 1047, 1048, 1049, 1050, 1051, 1052, 1053, 1054,
      1055, 1056, 1057, 1058, 1059, 1060, 1061, 1062, 1063, 1064, 1065,
      1066, 1067, 1068, 1069, 1070, 1071, 1072, 1073, 1074, 1075, 1076,
      1077, 1078, 1079, 1080, 1081, 1082, 1083, 1084, 1085, 1086, 1087,
      1088, 1089, 1090, 1091, 1092, 1093, 1094, 1095, 1096, 1097, 1098,
      1099, 1100, 1101, 1102, 1103, 8470, 1105, 1106, 1107, 1108, 1109,
      1110, 1111, 1112, 1113, 1114, 1115, 1116, 167, 1118, 1119>>

\* the codec table of a single-byte encoding
HighTable(encoding) ==
    CASE encoding = "windows-1251" -> CP1251_HIGH
      [] encoding = "koi8-r" -> KOI8R_HIGH
      [] encoding = "cp866" -> CP866_HIGH
      [] encoding = "iso-8859-5" -> ISO8859_5_HIGH

\* one byte under a single-byte encoding (-1: the byte is undefined)
DecodeByte(encoding, byte) ==
    IF byte < 128 THEN byte ELSE HighTable(encoding)[byte - 127]

\* raw.decode(encoding) for a single-byte encoding:
\* [ok |-> FALSE] is UnicodeDecodeError
DecodeSingleByte(encoding, raw) ==
    IF \E i \in 1 .. Len(raw) : DecodeByte(encoding, raw[i]) = -1
    THEN [ok |-> FALSE, text |-> <<>>]
    ELSE [ok |-> TRUE,
          text |-> [i \in 1 .. Len(raw) |-> DecodeByte(encoding, raw[i])]]

\* a UTF-8 continuation byte
IsCont(byte) == byte >= 128 /\ byte <= 191

\* the length of the well-formed UTF-8 sequence starting at raw[i], or 0
Utf8SeqLen(raw, i) ==
    LET n == Len(raw)
        b0 == raw[i]
    IN  IF b0 < 128 THEN 1
        ELSE IF b0 >= 194 /\ b0 <= 223
             THEN IF i + 1 <= n /\ IsCont(raw[i + 1]) THEN 2 ELSE 0
        ELSE IF b0 >= 224 /\ b0 <= 239
             THEN IF /\ i + 2 <= n
                     /\ IsCont(raw[i + 1]) /\ IsCont(raw[i + 2])
                     /\ (b0 = 224 => raw[i + 1] >= 160)
                     /\ (b0 = 237 => raw[i + 1] <= 159)
                  THEN 3 ELSE 0
        ELSE IF b0 >= 240 /\ b0 <= 244
             THEN IF /\ i + 3 <= n
                     /\ IsCont(raw[i + 1]) /\ IsCont(raw[i + 2])
                     /\ IsCont(raw[i + 3])
                     /\ (b0 = 240 => raw[i + 1] >= 144)
                     /\ (b0 = 244 => raw[i + 1] <= 143)
                  THEN 4 ELSE 0
        ELSE 0

\* the code point of the well-formed sequence of length k at raw[i]
Utf8CodePoint(raw, i, k) ==
    CASE k = 1 -> raw[i]
      [] k = 2 -> (raw[i] - 192) * 64 + (raw[i + 1] - 128)
      [] k = 3 -> (raw[i] - 224) * 4096 + (raw[i + 1] - 128) * 64
                  + (raw[i + 2] - 128)
      [] k = 4 -> (raw[i] - 240) * 262144 + (raw[i + 1] - 128) * 4096
                  + (raw[i + 2] - 128) * 64 + (raw[i + 3] - 128)

RECURSIVE Utf8Loop(_, _, _, _)
\* strict: the first malformed sequence fails; ignore: its first byte is
\* dropped
Utf8Loop(raw, i, acc, ignore) ==
    IF i > Len(raw) THEN [ok |-> TRUE, text |-> acc]
    ELSE LET k == Utf8SeqLen(raw, i) IN
         IF k = 0
         THEN IF ignore THEN Utf8Loop(raw, i + 1, acc, ignore)
              ELSE [ok |-> FALSE, text |-> <<>>]
         ELSE Utf8Loop(raw, i + k, Append(acc, Utf8CodePoint(raw, i, k)),
                       ignore)

\* raw.decode('utf-8')
DecodeUtf8(raw) == Utf8Loop(raw, 1, <<>>, FALSE)

\* raw.decode('utf-8', errors='ignore')
DecodeUtf8Ignore(raw) == Utf8Loop(raw, 1, <<>>, TRUE).text

\* raw.decode(encoding)
Decode(encoding, raw) ==
    IF encoding = "utf-8" THEN DecodeUtf8(raw)
    ELSE DecodeSingleByte(encoding, raw)

\* one code point in UTF-8 (<<>>: a surrogate, UnicodeEncodeError)
EncodeUtf8Char(c) ==
    IF c < 128 THEN <<c>>
    ELSE IF c < 2048 THEN <<192 + (c \div 64), 128 + (c % 64)>>
    ELSE IF c >= 55296 /\ c <= 57343 THEN <<>>
    ELSE IF c < 65536
         THEN <<224 + (c \div 4096), 128 + ((c \div 64) % 64), 128 + (c % 64)>>
    ELSE <<240 + (c \div 262144), 128 + ((c \div 4096) % 64),
           128 + ((c \div 64) % 64), 128 + (c % 64)>>

RECURSIVE EncodeUtf8Text(_)
EncodeUtf8Text(s) ==
    IF s = <<>> THEN <<>> ELSE EncodeUtf8Char(s[1]) \o EncodeUtf8Text(Tail(s))

\* what a temp file opened with encoding='utf-8' holds after tf.write(s):
\* [ok |-> FALSE] is UnicodeEncodeError
EncodeUtf8(s) ==
    IF \E i \in 1 .. Len(s) : EncodeUtf8Char(s[i]) = <<>>
    THEN [ok |-> FALSE, raw |-> <<>>]
    ELSE [ok |-> TRUE, raw |-> EncodeUtf8Text(s)]

\* content[1:] if content.startswith(BOM)
StripBOM(content) ==
    IF content # <<>> /\ content[1] = BOM THEN Tail(content) ELSE content

----------------------------------------------------------------------------
(* YandexDiskClient._fallback_decode *)

\* the bug of listing koi8-r before windows-1251
encodings_Reordered ==
    <<"utf-8", "koi8-r", "windows-1251", "cp866", "iso-8859-5">>

encodings == <<"utf-8", "windows-1251", "koi8-r", "cp866", "iso-8859-5">>

RECURSIVE FallbackLoop(_, _)
\* the for loop over encodings, then the last resort
FallbackLoop(raw_data, i) ==
    IF i > Len(encodings) THEN DecodeUtf8Ignore(raw_data)
    ELSE LET r == Decode(encodings[i], raw_data) IN
         IF r.ok THEN StripBOM(r.text) ELSE FallbackLoop(raw_data, i + 1)

_fallback_decode(raw_data) == FallbackLoop(raw_data, 1)

----------------------------------------------------------------------------
(* Blobs.  A .docx blob holds the paragraphs python-docx would read from  *)
(* it (the codec keeps paragraph texts as given); any other blob is bytes. *)

DocxBlob(paras) == [kind |-> "docx", paras |-> paras]
RawBlob(raw) == [kind |-> "raw", raw |-> raw]

\* the bytes download() leaves in the temp file; of a .docx container
\* only the zip signature "PK\x03\x04" is kept
BlobBytes(blob) ==
    IF blob.kind = "raw" THEN blob.raw ELSE <<80, 75, 3, 4>>

\* self.client.download(path, temp) raises: the call fails or the path
\* is no file
DownloadRaises(b, path, down) ==
    "download" \in down \/ path \notin DOMAIN b.files

DOCX == <<46, 100, 111, 99, 120>>   \* ".docx"

\* '/'.join(remote_path.split('/')[:-1])
FolderOf(remote_path) ==
    LET parts == Split(remote_path, SLASH)
    IN  Join(SubSeq(parts, 1, Len(parts) - 1), SLASH)

----------------------------------------------------------------------------
(* YandexDiskClient: read_docx, write_docx, _read_text_file,               *)
(* _write_text_file, read_file, write_file, list_files.                    *)
(* env = [down, guess, detect]: the backend calls that raise during this   *)
(* public call, what charset detection answers, and whether the detector  *)
(* was imported (CHARSET_DETECT_AVAILABLE).                                *)

read_docx(b, remote_path, env) ==
    LET full_path == FullPath(remote_path) IN
    IF "exists" \in env.down THEN None
    ELSE IF ~Exists(b, full_path) THEN None
    ELSE IF DownloadRaises(b, full_path, env.down) THEN None
    ELSE IF b.files[full_path].kind # "docx" THEN None   \* Document() raises
    ELSE Join(b.files[full_path].paras, NL)

\* returns [b, ok]
write_docx(b, remote_path, content, env) ==
    LET full_path == FullPath(remote_path)
        folder_path == FolderOf(remote_path)
        b1 == IF folder_path # <<>>
              THEN ensure_folder_exists(b, folder_path, env.down).b
              ELSE b
        paras == Split(content, NL)
    IN  IF UploadRaises(b1, full_path, env.down)
        THEN [b |-> b1, ok |-> FALSE]
        ELSE [b |-> Upload(b1, full_path, DocxBlob(paras)), ok |-> TRUE]

\* from_bytes(raw_data).best(), str(result): the detector answers with the
\* text under the encoding it settles on (env.guess), with nothing, or
\* raises; [ok |-> FALSE] is "fall through to the fallback"
Detect(raw_data, guess) ==
    IF guess \in {"none", "raises"} THEN [ok |-> FALSE, text |-> <<>>]
    ELSE Decode(guess, raw_data)

_read_text_file(b, remote_path, env) ==
    LET full_path == FullPath(remote_path) IN
    IF "exists" \in env.down THEN None
    ELSE IF ~Exists(b, full_path) THEN None
    ELSE IF DownloadRaises(b, full_path, env.down) THEN None
    ELSE LET raw_data == BlobBytes(b.files[full_path])
             result == Detect(raw_data, env.guess)
         IN  IF env.detect /\ raw_data # <<>> /\ result.ok
             THEN StripBOM(result.text)
             ELSE _fallback_decode(raw_data)

\* returns [b, ok]
_write_text_file(b, remote_path, content, env) ==
    LET full_path == FullPath(remote_path)
        folder_path == FolderOf(remote_path)
        b1 == IF folder_path # <<>>
              THEN ensure_folder_exists(b, folder_path, env.down).b
              ELSE b
        enc == EncodeUtf8(content)
    IN  IF ~enc.ok \/ UploadRaises(b1, full_path, env.down)
        THEN [b |-> b1, ok |-> FALSE]
        ELSE [b |-> Upload(b1, full_path, RawBlob(enc.raw)), ok |-> TRUE]

read_file(b, remote_path, env) ==
    IF EndsWith(Lower(remote_path), DOCX)
    THEN read_docx(b, remote_path, env)
    ELSE _read_text_file(b, remote_path, env)

write_file(b, remote_path, content, env) ==
    IF EndsWith(Lower(remote_path), DOCX)
    THEN write_docx(b, remote_path, content, env)
    ELSE _write_text_file(b, remote_path, content, env)

\* the names self.client.listdir(path) yields: the entries directly under
\* path
Listing(b, path) ==
    {SubSeq(p, Len(path) + 2, Len(p)) :
        p \in {q \in b.dirs \cup DOMAIN b.files : Parent(q) = path}}

\* the result as a set of names (the order is the backend's)
list_files(b, remote_path, env) ==
    LET full_path == FullPath(remote_path) IN
    IF "exists" \in env.down THEN {}
    ELSE IF ~Exists(b, full_path) THEN {}
    ELSE IF "listdir" \in env.down \/ full_path \notin b.dirs THEN {}
    ELSE Listing(b, full_path)

----------------------------------------------------------------------------
(* datetime: a record [year, month, day, hour, minute, second] *)

\* strftime("%Y/%m/%d")
DatePath(t) == Pad4(t.year) \o SLASH \o Pad2(t.month) \o SLASH \o Pad2(t.day)

\* strftime("%H:%M:%S")
TimeStr(t) == Pad2(t.hour) \o <<58>> \o Pad2(t.minute) \o <<58>> \o Pad2(t.second)

\* strftime("%Y-%m-%d %H:%M:%S")
DateTimeStr(t) ==
    Pad4(t.year) \o <<45>> \o Pad2(t.month) \o <<45>> \o Pad2(t.day)
    \o <<32>> \o TimeStr(t)

\* t.replace(day=d) for d <= t.day: [ok |-> FALSE] is ValueError("day is
\* out of range for month")
ReplaceDay(t, d) ==
    IF d < 1 THEN [ok |-> FALSE, t |-> t]
    ELSE [ok |-> TRUE, t |-> [t EXCEPT !.day = d]]

----------------------------------------------------------------------------
(* ProfileManager *)

PROFILE_FILES ==
    << <<107, 101, 121, 46, 100, 111, 99, 120>>,                   \* key.docx
       <<107, 105, 110, 103, 46, 100, 111, 99, 120>>,              \* king.docx
       <<114, 117, 108, 101, 115, 46, 100, 111, 99, 120>>,         \* rules.docx
       <<108, 105, 98, 114, 97, 114, 121, 46, 100, 111, 99, 120>>, \* library.docx
       <<119, 101, 108, 99, 111, 109, 101, 46, 100, 111, 99, 120>> >>  \* welcome.docx

KING == <<107, 105, 110, 103>>                  \* 'king'
RULES == <<114, 117, 108, 101, 115>>            \* 'rules'
LIBRARY == <<108, 105, 98, 114, 97, 114, 121>>  \* 'library'

\* files[key] = value
DictSet(d, key, value) ==
    [k \in DOMAIN d \cup {key} |-> IF k = key THEN value ELSE d[k]]

\* files.get(key)
DictGet(d, key) == IF key \in DOMAIN d THEN d[key] ELSE None

\* the bug of storing what read_file returned, None included
LoadedValue_Unchecked(content) == content

\* the value get_profile_files stores for one file
LoadedValue(content) == IF Truthy(content) THEN content ELSE <<>>

RECURSIVE ProfileFilesLoop(_, _, _, _, _)
ProfileFilesLoop(b, profile_name, env, i, loaded) ==
    IF i > Len(PROFILE_FILES) THEN loaded
    ELSE LET file_name == PROFILE_FILES[i]
             key == Replace(file_name, DOCX, <<>>)
             path == profile_name \o SLASH \o file_name
             content == read_file(b, path, env)
         IN  ProfileFilesLoop(b, profile_name, env, i + 1,
                              DictSet(loaded, key, LoadedValue(content)))

\* the dict returned: key -> str
get_profile_files(b, profile_name, env) ==
    ProfileFilesLoop(b, profile_name, env, 1, <<>>)

\* returns [b, ok]
save_profile_file(b, profile_name, file_key, content, env) ==
    write_file(b, profile_name \o SLASH \o file_key \o DOCX, content, env)

read_profile_file(b, profile_name, file_key, env) ==
    DictGet(get_profile_files(b, profile_name, env), file_key)

\* f"{profile_name}/logs/{date_path}"
LogFolder(profile_name, t) ==
    profile_name \o <<47, 108, 111, 103, 115, 47>> \o DatePath(t)

\* f"{profile_name}/logs/{date_path}/log.txt"
LogPath(profile_name, t) ==
    LogFolder(profile_name, t) \o <<47, 108, 111, 103, 46, 116, 120, 116>>

\* lines[start:] for any integer start
SliceFrom(lines, start) ==
    LET n == Len(lines)
        from == IF start < 0 THEN (IF n + start < 0 THEN 0 ELSE n + start)
                ELSE (IF start > n THEN n ELSE start)
    IN  SubSeq(lines, from + 1, n)

\* lines[-limit:] if len(lines) > limit else lines
LastLines(lines, limit) ==
    IF Len(lines) > limit THEN SliceFrom(lines, 0 - limit) ELSE lines

\* returns [raised, result]; `today` is datetime.now()
get_recent_messages(b, today, profile_name, limit, env) ==
    LET yesterday == ReplaceDay(today, today.day - 1) IN
    IF ~yesterday.ok THEN [raised |-> TRUE, result |-> None]
    ELSE
    LET content1 == _read_text_file(b, LogPath(profile_name, today), env)
        content == IF ~Truthy(content1)
                   THEN _read_text_file(b, LogPath(profile_name, yesterday.t),
                                        env)
                   ELSE content1
    IN  IF ~Truthy(content) THEN [raised |-> FALSE, result |-> <<>>]
        ELSE [raised |-> FALSE,
              result |-> Join(LastLines(Split(Strip(content), NL), limit), NL)]

\* the section headers, each with its trailing newline
HDR_KING ==     \* "ТЫ — ЛИЧНОСТЬ:\n"
    <<1058, 1067, 32, 8212, 32, 1051, 1048, 1063, 1053, 1054, 1057, 1058,
      1068, 58, 10>>
HDR_RULES ==    \* "ПРАВИЛА ОБЩЕНИЯ:\n"
    <<1055, 1056, 1040, 1042, 1048, 1051, 1040, 32, 1054, 1041, 1065, 1045,
      1053, 1048, 1071, 58, 10>>
HDR_LIBRARY ==  \* "ТВОИ ЗНАНИЯ И ОПЫТ:\n"
    <<1058, 1042, 1054, 1048, 32, 1047, 1053, 1040, 1053, 1048, 1071, 32,
      1048, 32, 1054, 1055, 1067, 1058, 58, 10>>
HDR_RECENT ==   \* "ПОСЛЕДНИЕ СООБЩЕНИЯ В ЧАТЕ:\n"
    <<1055, 1054, 1057, 1051, 1045, 1044, 1053, 1048, 1045, 32, 1057, 1054,
      1054, 1041, 1065, 1045, 1053, 1048, 1071, 32, 1042, 32, 1063, 1040,
      1058, 1045, 58, 10>>

\* parts after the three `if files.get(...)` appends
DocParts(loaded) ==
    (IF Truthy(DictGet(loaded, KING))
     THEN <<HDR_KING \o loaded[KING] \o NL>> ELSE <<>>)
    \o (IF Truthy(DictGet(loaded, RULES))
        THEN <<HDR_RULES \o loaded[RULES] \o NL>> ELSE <<>>)
    \o (IF Truthy(DictGet(loaded, LIBRARY))
        THEN <<HDR_LIBRARY \o loaded[LIBRARY] \o NL>> ELSE <<>>)

\* returns [raised, result]
build_context(b, today, profile_name, limit, env) ==
    LET loaded == get_profile_files(b, profile_name, env)
        parts == DocParts(loaded)
        recent == get_recent_messages(b, today, profile_name, limit, env)
    IN  IF recent.raised THEN [raised |-> TRUE, result |-> None]
        ELSE [raised |-> FALSE,
              result |-> Join(IF Truthy(recent.result)
                              THEN Append(parts, HDR_RECENT \o recent.result
                                                 \o NL)
                              ELSE parts,
                              NL)]

\* the parameters _write_text_file accepts besides self
WriteTextFileParams == {"remote_path", "content"}

\* the keyword arguments save_message passes to _write_text_file
SaveMessageKeywords == {"append"}

\* f"[{time_str}] {role}: {text}\n"
LogEntry(role, text, timestamp) ==
    <<91>> \o TimeStr(timestamp) \o <<93, 32>> \o role \o <<58, 32>> \o text
    \o NL

\* returns [b, raised]: the whole body is inside try/except Exception, so
\* raised is FALSE; an unexpected keyword argument is a TypeError raised
\* at the call, before _write_text_file runs
save_message(b, profile_name, role, text, timestamp, env) ==
    LET log_path == LogPath(profile_name, timestamp)
        folder_path == LogFolder(profile_name, timestamp)
        b1 == ensure_folder_exists(b, folder_path, env.down).b
        log_entry == LogEntry(role, text, timestamp)
    IN  IF SaveMessageKeywords \subseteq WriteTextFileParams
        THEN [b |-> _write_text_file(b1, log_path, log_entry, env).b,
              raised |-> FALSE]
        ELSE [b |-> b1, raised |-> FALSE]

\* "\n\n[" timestamp "] ДОБАВЛЕНО:\n"
AddedMarker(ts) ==
    <<10, 10, 91>> \o ts
    \o <<93, 32, 1044, 1054, 1041, 1040, 1042, 1051, 1045, 1053, 1054, 58, 10>>

\* the bug of appending without the marker block
NewLibraryContent_NoMarker(current, ts, text) ==
    IF Truthy(current) THEN current \o NL \o NL \o text ELSE text

\* new_content of add_to_library
NewLibraryContent(current, ts, text) ==
    IF Truthy(current) THEN current \o AddedMarker(ts) \o text ELSE text

\* returns [b, ok]
add_to_library(b, today, profile_name, text, env) ==
    LET current == read_profile_file(b, profile_name, LIBRARY, env)
        timestamp == DateTimeStr(today)
        new_content == NewLibraryContent(current, timestamp, text)
    IN  save_profile_file(b, profile_name, LIBRARY, new_content, env)

----------------------------------------------------------------------------
(* The inputs and the initial disks the model explores *)

Profiles == {<<112>>}                      \* "p"
Texts == {<<97>>, <<98, 10, 99>>}          \* "a", "b\nc"
Roles == {<<117>>}                         \* "u"
Limits == 0 .. MaxLimit
Days == 1 .. MaxDay
SaveKeys == {RULES, LIBRARY}
\* "a/b/c", "a//b", "a", ""
FolderInputs == {<<97, 47, 98, 47, 99>>, <<97, 47, 47, 98>>, <<97>>, <<>>}
\* "notes.txt"
NOTES == <<110, 111, 116, 101, 115, 46, 116, 120, 116>>
\* "notes.txt", "a/b.docx"
FileInputs == {NOTES, <<97, 47, 98, 46, 100, 111, 99, 120>>}

\* the failure patterns tried on a method that makes the backend calls
\* `kinds`: none is down, one kind is, or all are
Failures(kinds) == {{}} \cup {{c} : c \in kinds} \cup {kinds}

\* the texts save_profile_file is called with: "", "a"
SaveTexts == {<<>>, <<97>>}

Guesses == {"none", "raises", "utf-8", "windows-1251", "koi8-r"}

Clock(d) ==
    [year |-> 2024, month |-> 5, day |-> d, hour |-> 9, minute |-> 30,
     second |-> 7]

RECURSIVE Ancestors(_)
\* the folders above a full path
Ancestors(path) ==
    LET up == Parent(path)
    IN  IF up = <<>> THEN {} ELSE {up} \cup Ancestors(up)

\* a disk holding the files of f (full path -> blob) and their folders
DiskOf(f) ==
    [dirs |-> {RootPath} \cup UNION {Ancestors(p) : p \in DOMAIN f},
     files |-> f]

DocPath(profile_name, i) == FullPath(profile_name \o SLASH \o PROFILE_FILES[i])

\* line k of the log of day d: the day's digit and a letter
LogLine(d, k) == <<Digit(d), 96 + k>>

RECURSIVE LogBytes(_, _)
\* a log of n lines, each ended by a newline
LogBytes(d, n) ==
    IF n = 0 THEN <<>> ELSE LogBytes(d, n - 1) \o LogLine(d, n) \o NL

\* the profile documents of an initial disk: index in PROFILE_FILES -> blob
DocImages ==
    { <<>>,
      (3 :> DocxBlob(<< <<82>> >>)),
      (1 :> DocxBlob(<< <<107>> >>) @@ 2 :> DocxBlob(<< <<75>> >>)
       @@ 3 :> DocxBlob(<< <<82>> >>) @@ 4 :> DocxBlob(<< <<76>> >>)
       @@ 5 :> DocxBlob(<< <<87>> >>)),
      (2 :> DocxBlob(<<>>) @@ 4 :> RawBlob(<<0, 1>>)) }

\* the logs of an initial disk: day -> number of lines (-1: no file)
LogImages ==
    { [d \in Days |-> -1],
      [d \in Days |-> d + 1],
      [d \in Days |-> IF d = 1 THEN 5 ELSE 0] }

InitialFiles(profile_name, docs, logs) ==
    LET docPaths == {DocPath(profile_name, i) : i \in DOMAIN docs}
        logDays == {d \in Days : logs[d] >= 0}
        logPaths == {FullPath(LogPath(profile_name, Clock(d))) : d \in logDays}
    IN  [p \in docPaths \cup logPaths |->
            IF p \in docPaths
            THEN docs[CHOOSE i \in DOMAIN docs : DocPath(profile_name, i) = p]
            ELSE LET d == CHOOSE e \in logDays :
                              FullPath(LogPath(profile_name, Clock(e))) = p
                 IN  RawBlob(LogBytes(d, logs[d]))]

\* a disk that does not even hold the root folder
EmptyDisk == [dirs |-> {}, files |-> <<>>]

InitialDisks ==
    {EmptyDisk}
    \cup {DiskOf(InitialFiles(<<112>>, docs, logs)) :
            docs \in DocImages, logs \in LogImages}

\* the initial disks without logs
ProfileDisks ==
    {EmptyDisk}
    \cup {DiskOf(InitialFiles(<<112>>, docs, [d \in Days |-> -1])) :
            docs \in DocImages}

\* the initial disks of the file store alone: none, the root, a folder
\* "a" in it, a file "a" in it
StoreDisks ==
    {EmptyDisk, DiskOf(<<>>), DiskOf(FullPath(<<97, 47, 120>>) :> RawBlob(<<>>)),
     DiskOf(FullPath(<<97>>) :> RawBlob(<<120>>))}

\* the text python-docx reads from the stored document, <<>> when there is
\* no readable document at the path
StoredText(b, path) ==
    IF path \in DOMAIN b.files /\ b.files[path].kind = "docx"
    THEN Join(b.files[path].paras, NL) ELSE <<>>

\* the bytes stored at a path, <<>> when there is no file
StoredBytes(b, path) ==
    IF path \in DOMAIN b.files THEN BlobBytes(b.files[path]) ELSE <<>>

LibraryPath(profile_name) == DocPath(profile_name, 4)

NoSample == [encoding |-> "none", text |-> <<>>, bom |-> FALSE]

Disk == [dirs |-> dirs, files |-> files]

Env(down, guess) == [down |-> down, guess |-> guess, detect |-> detect]

Call(op, args, down, raised, result, before, mkdirs) ==
    [op |-> op, args |-> args, down |-> down, raised |-> raised,
     result |-> result, before |-> before, mkdirs |-> mkdirs]

\* no call is in progress
Idle == Call("idle", <<>>, {}, FALSE, <<>>, <<>>, <<>>)

\* the state after construction, on one of the disks of `disks`
InitOn(disks, detects) ==
    /\ \E b \in disks : dirs = b.dirs /\ files = b.files
    /\ \E d \in Days : now = Clock(d)
    /\ detect \in detects
    /\ last = Idle
    /\ added = [valid |-> ~Truthy(StoredText(Disk, LibraryPath(<<112>>))),
                calls |-> <<>>]
    /\ sample = NoSample

Init == InitOn(InitialDisks, BOOLEAN)

----------------------------------------------------------------------------
(* One action per public method: the whole method runs against the disk *)

RECURSIVE PrefixLoop(_, _, _)
PrefixLoop(parts, i, current_path) ==
    IF i > Len(parts) THEN <<>>
    ELSE IF parts[i] = <<>> THEN PrefixLoop(parts, i + 1, current_path)
    ELSE <<current_path \o SLASH \o parts[i]>>
         \o PrefixLoop(parts, i + 1, current_path \o SLASH \o parts[i])

\* the folders under the root that a relative path names, root to leaf
Prefixes(remote_path) == PrefixLoop(Split(remote_path, SLASH), 1, RootPath)

\* the elements of a sequence
Range(s) == {s[i] : i \in DOMAIN s}

EnsureFolderExists ==
    /\ last.op = "idle"
    /\ \E remote_path \in FolderInputs, down \in Failures({"exists", "mkdir"}) :
        LET r == ensure_folder_exists(Disk, remote_path, down) IN
        /\ dirs' = r.b.dirs
        /\ files' = r.b.files
        /\ last' = Call("ensure_folder_exists", <<remote_path>>, down, FALSE,
                        r.ok,
                        {p \in Range(Prefixes(remote_path)) : Exists(Disk, p)},
                        r.mkdirs)
        /\ UNCHANGED <<now, detect, added, sample>>

ReadFile ==
    /\ last.op = "idle"
    /\ \E remote_path \in FileInputs, down \in Failures({"exists", "download"}),
       guess \in Guesses :
        /\ last' = Call("read_file", <<remote_path>>, down, FALSE,
                        read_file(Disk, remote_path, Env(down, guess)),
                        <<>>, <<>>)
        /\ UNCHANGED <<dirs, files, now, detect, added, sample>>

WriteFile ==
    /\ last.op = "idle"
    /\ \E remote_path \in FileInputs, content \in Texts,
       down \in Failures({"exists", "mkdir", "upload"}) :
        LET r == write_file(Disk, remote_path, content, Env(down, "none")) IN
        /\ dirs' = r.b.dirs
        /\ files' = r.b.files
        /\ last' = Call("write_file", <<remote_path, content>>, down, FALSE,
                        r.ok, <<>>, <<>>)
        /\ UNCHANGED <<now, detect, added, sample>>

ListFiles ==
    /\ last.op = "idle"
    /\ \E remote_path \in FolderInputs, down \in Failures({"exists", "listdir"}) :
        /\ last' = Call("list_files", <<remote_path>>, down, FALSE,
                        list_files(Disk, remote_path, Env(down, "none")),
                        <<>>, <<>>)
        /\ UNCHANGED <<dirs, files, now, detect, added, sample>>

GetProfileFiles ==
    /\ last.op = "idle"
    /\ \E profile_name \in Profiles, down \in Failures({"exists", "download"}) :
        /\ last' = Call("get_profile_files", <<profile_name>>, down, FALSE,
                        get_profile_files(Disk, profile_name,
                                          Env(down, "none")),
                        <<>>, <<>>)
        /\ UNCHANGED <<dirs, files, now, detect, added, sample>>

ReadProfileFile ==
    /\ last.op = "idle"
    /\ \E profile_name \in Profiles, file_key \in SaveKeys,
       down \in Failures({"exists", "download"}) :
        /\ last' = Call("read_profile_file", <<profile_name, file_key>>, down,
                        FALSE,
                        read_profile_file(Disk, profile_name, file_key,
                                          Env(down, "none")),
                        <<>>, <<>>)
        /\ UNCHANGED <<dirs, files, now, detect, added, sample>>

SaveProfileFile ==
    /\ last.op = "idle"
    /\ \E profile_name \in Profiles, file_key \in SaveKeys, content \in SaveTexts,
       down \in Failures({"exists", "mkdir", "upload"}) :
        LET r == save_profile_file(Disk, profile_name, file_key, content,
                                   Env(down, "none"))
        IN
        /\ dirs' = r.b.dirs
        /\ files' = r.b.files
        /\ last' = Call("save_profile_file",
                        <<profile_name, file_key, content>>, down, FALSE,
                        r.ok, <<>>, <<>>)
        /\ added' = IF file_key = LIBRARY /\ r.ok
                    THEN [added EXCEPT !.valid = FALSE] ELSE added
        /\ UNCHANGED <<now, detect, sample>>

BuildContext ==
    /\ last.op = "idle"
    /\ \E profile_name \in Profiles, limit \in Limits,
       down \in Failures({"exists", "download"}), guess \in Guesses :
        LET r == build_context(Disk, now, profile_name, limit,
                               Env(down, guess))
        IN
        /\ last' = Call("build_context", <<profile_name, limit>>, down,
                        r.raised, r.result, <<>>, <<>>)
        /\ UNCHANGED <<dirs, files, now, detect, added, sample>>

SaveMessage ==
    /\ last.op = "idle"
    /\ \E profile_name \in Profiles, role \in Roles, text \in Texts,
       d \in Days, down \in Failures({"exists", "mkdir", "upload"}) :
        LET timestamp == Clock(d)
            r == save_message(Disk, profile_name, role, text, timestamp,
                              Env(down, "none"))
        IN
        /\ dirs' = r.b.dirs
        /\ files' = r.b.files
        /\ last' = Call("save_message",
                        <<profile_name, role, text, timestamp>>, down,
                        r.raised, <<>>,
                        StoredBytes(Disk,
                                    FullPath(LogPath(profile_name, timestamp))),
                        <<>>)
        /\ UNCHANGED <<now, detect, added, sample>>

GetRecentMessages ==
    /\ last.op = "idle"
    /\ \E profile_name \in Profiles, limit \in Limits,
       down \in Failures({"exists", "download"}), guess \in Guesses :
        LET r == get_recent_messages(Disk, now, profile_name, limit,
                                     Env(down, guess))
        IN
        /\ last' = Call("get_recent_messages", <<profile_name, limit>>, down,
                        r.raised, r.result, <<>>, <<>>)
        /\ UNCHANGED <<dirs, files, now, detect, added, sample>>

AddToLibrary ==
    /\ last.op = "idle"
    /\ \E profile_name \in Profiles, text \in Texts,
          down \in Failures({"exists", "mkdir", "download", "upload"}) :
        LET r == add_to_library(Disk, now, profile_name, text,
                                Env(down, "none"))
        IN
        /\ Len(added.calls) < MaxAdds
        /\ dirs' = r.b.dirs
        /\ files' = r.b.files
        /\ last' = Call("add_to_library", <<profile_name, text>>, down, FALSE,
                        r.ok, StoredText(Disk, LibraryPath(profile_name)),
                        <<>>)
        /\ added' = [valid |-> added.valid /\ down = {} /\ RootPath \in dirs,
                     calls |-> Append(added.calls,
                                      [text |-> text,
                                       ts |-> DateTimeStr(now)])]
        /\ UNCHANGED <<now, detect, sample>>

\* midnight passes
Tick ==
    /\ last.op = "idle"
    /\ now.day < MaxDay
    /\ now' = [now EXCEPT !.day = @ + 1]
    /\ UNCHANGED <<dirs, files, detect, last, added, sample>>

\* the caller takes the result and goes on
Return ==
    /\ last.op # "idle"
    /\ last' = Idle
    /\ UNCHANGED <<dirs, files, now, detect, added, sample>>

Next ==
    \/ EnsureFolderExists
    \/ ReadFile
    \/ WriteFile
    \/ ListFiles
    \/ GetProfileFiles
    \/ ReadProfileFile
    \/ SaveProfileFile
    \/ BuildContext
    \/ SaveMessage
    \/ GetRecentMessages
    \/ AddToLibrary
    \/ Tick
    \/ Return

\* the whole program
Spec == Init /\ [][Next]_vars

(* Component specifications: every behaviour of a component               *)
(* specification is a behaviour of the program in which only that         *)
(* component's methods are called.                                        *)

\* YandexDiskClient's public methods
NextStore ==
    \/ EnsureFolderExists
    \/ ReadFile
    \/ WriteFile
    \/ ListFiles
    \/ Return

SpecStore == InitOn(StoreDisks, BOOLEAN) /\ [][NextStore]_vars

\* ProfileManager's methods on the profile documents
NextProfile ==
    \/ GetProfileFiles
    \/ ReadProfileFile
    \/ SaveProfileFile
    \/ AddToLibrary
    \/ Tick
    \/ Return

SpecProfile == InitOn(ProfileDisks, {TRUE}) /\ [][NextProfile]_vars

\* ProfileManager's methods on the logs and the context
NextLog ==
    \/ SaveMessage
    \/ GetRecentMessages
    \/ BuildContext
    \/ Tick
    \/ Return

SpecLog == InitOn(InitialDisks, BOOLEAN) /\ [][NextLog]_vars

----------------------------------------------------------------------------
(* The plain-text reader on single samples: a file notes.txt holding a    *)
(* Cyrillic string encoded with one encoding of the fallback list (the    *)
(* UTF-8 ones with or without a byte order mark), read with charset       *)
(* detection not installed.                                                *)

\* the Cyrillic letters the samples are made of: R, yo, Sha, pe, i
\* (U+0420, U+0451, U+0428, U+043F, U+0438)
CyrillicLetters == {1056, 1105, 1064, 1087, 1080}

\* the strings over an alphabet of lengths 1 .. n
StringsUpTo(alphabet, n) ==
    UNION {[1 .. k -> alphabet] : k \in 1 .. n}

\* s.encode(encoding) for a string the encoding can represent
EncodeText(encoding, s) ==
    IF encoding = "utf-8" THEN EncodeUtf8Text(s)
    ELSE [i \in 1 .. Len(s) |->
            CHOOSE byte \in 0 .. 255 : DecodeByte(encoding, byte) = s[i]]

\* the encodings the samples are written in
SampleEncodings == {"utf-8", "windows-1251", "koi8-r", "cp866", "iso-8859-5"}

\* the bytes of a sample file
SampleBytes(s) ==
    (IF s.bom THEN <<239, 187, 191>> ELSE <<>>)
    \o EncodeText(s.encoding, s.text)

InitReader ==
    /\ \E e \in SampleEncodings,
          s \in StringsUpTo(CyrillicLetters, MaxStrLen),
          bom \in BOOLEAN :
        /\ bom => e = "utf-8"
        /\ sample = [encoding |-> e, text |-> s, bom |-> bom]
        /\ files = (FullPath(NOTES) :> RawBlob(SampleBytes(sample)))
    /\ dirs = {RootPath}
    /\ now = Clock(1)
    /\ detect = FALSE
    /\ last = Idle
    /\ added = [valid |-> FALSE, calls |-> <<>>]

NextReader ==
    \/ ReadFile
    \/ Return

SpecReader == InitReader /\ [][NextReader]_vars

----------------------------------------------------------------------------
(* What the claims speak of, read off the disk without the client *)

TheProfile == <<112>>   \* "p"

Min(a, b) == IF a < b THEN a ELSE b

\* the lines of a log file: its UTF-8 text cut at the newlines, each line
\* ended by one
FileLines(raw) ==
    LET text == DecodeUtf8(raw).text
        pieces == Split(text, NL)
    IN  IF text = <<>> THEN <<>>
        ELSE IF pieces[Len(pieces)] = <<>>
             THEN SubSeq(pieces, 1, Len(pieces) - 1)
        ELSE pieces

\* the lines of the log of the day of t
DayLines(t) == FileLines(StoredBytes(Disk, FullPath(LogPath(TheProfile, t))))

\* the calendar day before t (the modelled month is May)
PrevDay(t) ==
    IF t.day > 1 THEN [t EXCEPT !.day = @ - 1]
    ELSE [t EXCEPT !.month = @ - 1, !.day = 30]

\* the last k elements of a sequence
LastK(s, k) == SubSeq(s, Len(s) - Min(k, Len(s)) + 1, Len(s))

\* s is t or the end of t
IsSuffix(s, t) == Len(s) <= Len(t) /\ SubSeq(t, Len(t) - Len(s) + 1, Len(t)) = s

\* s is t or the start of t
IsPrefix(s, t) == Len(s) <= Len(t) /\ SubSeq(t, 1, Len(s)) = s

\* the stored text of a profile document, by its index in PROFILE_FILES
DocText(i) == StoredText(Disk, DocPath(TheProfile, i))

\* no log file of the disk holds anything
NoLogHistory ==
    \A p \in DOMAIN files :
        EndsWith(p, <<47, 108, 111, 103, 46, 116, 120, 116>>)
            => BlobBytes(files[p]) = <<>>

----------------------------------------------------------------------------
(* C1: save_message appends.  After a call on a disk that has its root    *)
(* and a backend that does not fail, the day's log file holds what it     *)
(* held before (nothing if it was absent) followed by the one line        *)
(* "[HH:MM:SS] role: text\n".                                              *)
C1_AppendSemantics ==
    (last.op = "save_message" /\ last.down = {} /\ RootPath \in dirs)
    => StoredBytes(Disk, FullPath(LogPath(last.args[1], last.args[4])))
       = last.before
         \o EncodeUtf8Text(LogEntry(last.args[2], last.args[3], last.args[4]))

(* C2: no public call lets an exception escape, whatever the disk, the    *)
(* backend failures and the date.                                          *)
C2_NoExceptionEscapes == last.raised = FALSE

(* C3: when the consulted log file (today's, or yesterday's when today's  *)
(* is empty or absent) has n >= 1 lines, get_recent_messages returns      *)
(* exactly its last min(limit, n) lines in order, joined with newline,    *)
(* for every limit >= 0.                                                   *)
C3_TailIsLastLimitLines ==
    LET limit == last.args[2]
        lines == IF DayLines(now) # <<>> THEN DayLines(now)
                 ELSE DayLines(PrevDay(now))
    IN  (/\ last.op = "get_recent_messages"
         /\ last.down = {}
         /\ ~last.raised
         /\ Len(lines) >= 1)
        => last.result = Join(LastK(lines, limit), NL)

(* C6: build_context returns the labeled blocks of exactly the non-empty  *)
(* ones of king, rules and library, in that order, and nothing for an     *)
(* empty source: with no log history the result is those blocks joined    *)
(* with newline -- the empty string when all documents are empty, the one *)
(* rules section when only rules is populated.                             *)
C6_ContextBlocks ==
    LET blocks ==
            (IF DocText(2) # <<>> THEN <<HDR_KING \o DocText(2) \o NL>>
             ELSE <<>>)
            \o (IF DocText(3) # <<>> THEN <<HDR_RULES \o DocText(3) \o NL>>
                ELSE <<>>)
            \o (IF DocText(4) # <<>> THEN <<HDR_LIBRARY \o DocText(4) \o NL>>
                ELSE <<>>)
    IN  (last.op = "build_context" /\ last.down = {} /\ NoLogHistory)
        => /\ ~last.raised
           /\ last.result = Join(blocks, NL)

(* C9: get_recent_messages consults one day's file, today's first: if     *)
(* today's log is non-empty the result is a tail of today's lines on      *)
(* every date; otherwise it is a tail of the previous calendar day's      *)
(* lines; it is empty when both are empty or absent.                      *)
C9_OneDayTodayFirst ==
    LET today == DayLines(now)
        yesterday == DayLines(PrevDay(now))
        got == IF last.result = <<>> THEN <<>> ELSE Split(last.result, NL)
    IN  (last.op = "get_recent_messages" /\ last.down = {})
        => /\ ~last.raised
           /\ today # <<>> => IsSuffix(got, today)
           /\ (today = <<>> /\ yesterday # <<>>) => IsSuffix(got, yesterday)
           /\ (today = <<>> /\ yesterday = <<>>) => got = <<>>

(* C10: add_to_library never loses stored content: if the library held    *)
(* the non-empty text L before the call, then afterwards it still holds   *)
(* L and the call returned false, or it holds L followed by the blank     *)
(* line and the "[timestamp]" marker block and the call returned true --  *)
(* whatever backend calls failed.                                          *)
C10_LibraryOnlyGrows ==
    LET L == last.before
        stored == StoredText(Disk, LibraryPath(last.args[1]))
    IN  (last.op = "add_to_library" /\ L # <<>>)
        => \/ ~last.result /\ stored = L
           \/ last.result /\ IsPrefix(L \o <<10, 10, 91>>, stored)

----------------------------------------------------------------------------
(* C4: add_to_library called with A and then B on a library that was      *)
(* empty or missing, the backend not failing, first leaves exactly A (no  *)
(* marker) and then A, a blank line, the line "[timestamp] ДОБАВЛЕНО:"    *)
(* and B.  `added` holds the calls made; it is valid while the library    *)
(* started empty and only unfailing add_to_library calls wrote to it.     *)
C4_AppendTwice ==
    LET stored == StoredText(Disk, LibraryPath(TheProfile))
        A == added.calls[1]
        B == added.calls[2]
    IN  added.valid
        => /\ Len(added.calls) = 1 => stored = A.text
           /\ Len(added.calls) = 2
              => stored = A.text \o NL \o NL
                          \o <<91>> \o B.ts
                          \o <<93, 32, 1044, 1054, 1041, 1040, 1042, 1051,
                               1045, 1053, 1054, 58>>
                          \o NL \o B.text

\* two calls were made on an empty library, with different texts
C4_Witness ==
    /\ added.valid
    /\ Len(added.calls) = 2
    /\ added.calls[1].text # added.calls[2].text
    /\ last.op = "add_to_library"
    /\ last.result = TRUE

(* C5: get_profile_files returns a mapping whose keys are exactly key,    *)
(* king, rules, library, welcome and whose values are all strings: the    *)
(* stored text, or the empty string when the document is missing or       *)
(* unreadable or a backend call of the read failed; never None.            *)
C5_FiveStringKeys ==
    LET loaded == last.result
        keys == {<<107, 101, 121>>, <<107, 105, 110, 103>>,
                 <<114, 117, 108, 101, 115>>,
                 <<108, 105, 98, 114, 97, 114, 121>>,
                 <<119, 101, 108, 99, 111, 109, 101>>}
    IN  last.op = "get_profile_files"
        => /\ DOMAIN loaded = keys
           /\ \A i \in 1 .. Len(PROFILE_FILES) :
                LET key == SubSeq(PROFILE_FILES[i], 1,
                                  Len(PROFILE_FILES[i]) - 5)
                IN  /\ loaded[key] # None
                    /\ \A j \in DOMAIN loaded[key] : loaded[key][j] \in Nat
                    /\ loaded[key] = IF last.down = {} THEN DocText(i)
                                     ELSE <<>>

\* a read in which one document is missing, one is unreadable and one
\* is there
C5_Witness ==
    /\ last.op = "get_profile_files"
    /\ last.down = {}
    /\ DocPath(TheProfile, 1) \notin DOMAIN files
    /\ DocPath(TheProfile, 4) \in DOMAIN files
    /\ files[DocPath(TheProfile, 4)].kind = "raw"
    /\ last.result[RULES] # <<>>

(* C7: ensure_folder_exists issues mkdir only for the folders of the      *)
(* path, under the root, that did not exist, root to leaf, skipping the   *)
(* empty segments; when it returns true every folder of the path exists;  *)
(* called when they all exist it issues no mkdir and returns true; it     *)
(* returns false exactly when a backend call raised.                       *)
C7_EnsureFolder ==
    LET remote_path == last.args[1]
        folders == Prefixes(remote_path)
        missing == SelectSeq(folders, LAMBDA p : p \notin last.before)
        mkdirs == last.mkdirs
        existsRaised == "exists" \in last.down /\ folders # <<>>
        mkdirRaised == mkdirs # <<>> /\ ~Exists(Disk, mkdirs[Len(mkdirs)])
    IN  last.op = "ensure_folder_exists"
        => /\ IsPrefix(mkdirs, missing)
           /\ last.result = TRUE
              => /\ \A p \in Range(folders) : Exists(Disk, p)
                 /\ mkdirs = missing
           /\ (missing = <<>> /\ "exists" \notin last.down)
              => (mkdirs = <<>> /\ last.result = TRUE)
           /\ last.result = FALSE <=> (existsRaised \/ mkdirRaised)

\* a call that found the first folder of the path and created the rest
C7_Witness ==
    /\ last.op = "ensure_folder_exists"
    /\ last.result = TRUE
    /\ last.before # {}
    /\ Len(last.mkdirs) = 2

====
